---- MODULE Spec2Model ----
(***************************************************************************)
(* PlaceHolderDecorator (src/src/placeholder-decorator.ts): the overlay    *)
(* manager of CodeAceJumper.  It keeps a config, two caches of generated   *)
(* image resources and three trackers of editor decoration types, and      *)
(* applies / removes them on a text editor.                                *)
(*                                                                         *)
(* The manager's fields are the variables config, placeholderCache,        *)
(* highlightCache, dim, decorations and highlights.  The editor and the    *)
(* `window` factory are modelled by `handles`: one record per decoration   *)
(* type ever created, counting what the manager asked the editor to do     *)
(* with it.  pc is the position inside refreshConfig, whose three          *)
(* assignments are separate steps; every other operation runs only when    *)
(* no refreshConfig is in progress (single-threaded host).  lastCall,      *)
(* completed, previous and adds are history variables: the last public     *)
(* call entered, with what it handed to the editor; the config of the last *)
(* refreshConfig that returned, and of the one before it; and the number   *)
(* of add calls that returned since the last remove of each list.          *)
(***************************************************************************)
EXTENDS Integers, Sequences, FiniteSets, TLC

VARIABLES config, placeholderCache, highlightCache, dim, decorations,
          highlights, handles, pc, lastCall, completed, previous, adds

vars == <<config, placeholderCache, highlightCache, dim, decorations,
          highlights, handles, pc, lastCall, completed, previous, adds>>

-----------------------------------------------------------------------------
(* Bounds of the exploration *)

\* decoration types the window factory hands out in one behaviour
MaxHandles == 3
\* length of the placeholders array of one add call
MaxTargets == 2
\* length of the ranges array of one dimEditor call
MaxRanges == 2

-----------------------------------------------------------------------------
(* Values *)

\* JavaScript's undefined: a field never assigned, a deleted field, a missing key
Undefined == [undefined |-> TRUE]

\* the widths the highlight cache is built for run from 1 to HighlightWidths
HighlightWidths == 10
\* column offset of a placeholder anchor, and of a highlight anchor
PlaceholderOffset == 1
HighlightOffset == 2
\* corner radius of the rectangles of both images
CornerRadius == 2

\* Number.MAX_VALUE, the end column of the default dim range: the largest
\* number there is, here the largest integer the model checker has
MAX_VALUE == 2147483647

\* String.prototype.toUpperCase / toLowerCase on the codes used here
toUpperCase(code) ==
  CASE code = "a" -> "A"
    [] code = "s" -> "S"
    [] code = "d" -> "D"
    [] OTHER -> code

toLowerCase(code) ==
  CASE code = "A" -> "a"
    [] code = "S" -> "s"
    [] code = "D" -> "d"
    [] OTHER -> code

\* The Config values handed to refreshConfig
Configs ==
  { [ characters |-> <<"A", "s">>,
      placeholder |-> [ width |-> 12, height |-> 14, backgroundColor |-> "yellow",
                        color |-> "black", fontFamily |-> "Consolas",
                        fontWeight |-> "normal", fontSize |-> 14,
                        textPosX |-> 2, textPosY |-> 12, upperCase |-> FALSE ],
      highlight |-> [ width |-> 6, height |-> 14, backgroundColor |-> "blue",
                      offsetX |-> 0, offsetY |-> 0 ] ],
    [ characters |-> <<"S", "d">>,
      placeholder |-> [ width |-> 10, height |-> 12, backgroundColor |-> "white",
                        color |-> "red", fontFamily |-> "Menlo",
                        fontWeight |-> "bold", fontSize |-> 11,
                        textPosX |-> 1, textPosY |-> 10, upperCase |-> TRUE ],
      highlight |-> [ width |-> 5, height |-> 12, backgroundColor |-> "green",
                      offsetX |-> 1, offsetY |-> 3 ] ] }

\* The Placeholder models handed to addDecorations / addHighlights
Placeholders ==
  { [ line |-> 3, character |-> 5, placeholder |-> "s" ],
    [ line |-> 0, character |-> 0, placeholder |-> "S" ] }

\* arrays of at most n elements of S
SeqUpTo(S, n) == UNION { [1..k -> S] : k \in 0..n }

PlaceholderLists == SeqUpTo(Placeholders, MaxTargets)

\* highlightCount arguments: the least and the greatest cached width, one
\* width between them, and the first value on either side of the cached ones
HighlightCounts == { 0, 1, 5, HighlightWidths, HighlightWidths + 1 }

\* new Position(line, character)
Position(line, character) == [ line |-> line, character |-> character ]

\* new Range(start, end)
RangeOf(start, end) == [ start |-> start, end |-> end ]

\* new Range(startLine, startCharacter, endLine, endCharacter)
Range4(sl, sc, el, ec) == RangeOf(Position(sl, sc), Position(el, ec))

\* The Range values handed to dimEditor
DimRanges == { Range4(0, 0, 1, 4), Range4(2, 1, 2, 9) }

\* a JavaScript array passed where undefined may be passed instead
ArrayOf(elements) == [ array |-> elements ]

\* the ranges argument of dimEditor: undefined, or an array (possibly empty)
DimRangeArgs == {Undefined} \cup { ArrayOf(r) : r \in SeqUpTo(DimRanges, MaxRanges) }

\* editor.document.lineCount of the editors handed to dimEditor
LineCounts == {1, 40}

-----------------------------------------------------------------------------
(* Glyph builders *)

\* Faulty variant of buildUriForPlaceholder: the two branches of the case
\* conversion are swapped
buildUriForPlaceholderSwapped(cfg, code) ==
  [ uri |-> "data:image/svg+xml;utf8",
    svg |-> [ viewBox |-> <<0, 0, cfg.placeholder.width, cfg.placeholder.height>>,
              width |-> cfg.placeholder.width,
              height |-> cfg.placeholder.height,
              rect |-> [ width |-> cfg.placeholder.width,
                         height |-> cfg.placeholder.height,
                         rx |-> CornerRadius, ry |-> CornerRadius,
                         fill |-> cfg.placeholder.backgroundColor ],
              text |-> [ fontWeight |-> cfg.placeholder.fontWeight,
                         fontFamily |-> cfg.placeholder.fontFamily,
                         fontSize |-> cfg.placeholder.fontSize,
                         fill |-> cfg.placeholder.color,
                         x |-> cfg.placeholder.textPosX,
                         y |-> cfg.placeholder.textPosY,
                         content |-> IF cfg.placeholder.upperCase
                                       THEN toLowerCase(code)
                                       ELSE toUpperCase(code) ] ] ]

\* buildUriForPlaceholder, reading this.config = cfg
buildUriForPlaceholder(cfg, code) ==
  [ uri |-> "data:image/svg+xml;utf8",
    svg |-> [ viewBox |-> <<0, 0, cfg.placeholder.width, cfg.placeholder.height>>,
              width |-> cfg.placeholder.width,
              height |-> cfg.placeholder.height,
              rect |-> [ width |-> cfg.placeholder.width,
                         height |-> cfg.placeholder.height,
                         rx |-> CornerRadius, ry |-> CornerRadius,
                         fill |-> cfg.placeholder.backgroundColor ],
              text |-> [ fontWeight |-> cfg.placeholder.fontWeight,
                         fontFamily |-> cfg.placeholder.fontFamily,
                         fontSize |-> cfg.placeholder.fontSize,
                         fill |-> cfg.placeholder.color,
                         x |-> cfg.placeholder.textPosX,
                         y |-> cfg.placeholder.textPosY,
                         content |-> IF cfg.placeholder.upperCase
                                       THEN toUpperCase(code)
                                       ELSE toLowerCase(code) ] ] ]

\* Faulty variant of buildUriForHighlight: the width is not multiplied by the
\* character count
buildUriForHighlightUnscaled(cfg, characterCount) ==
  LET width == cfg.highlight.width
      height == cfg.highlight.height
      offsetX == cfg.highlight.offsetX
      offsetY == cfg.highlight.offsetY
  IN  [ uri |-> "data:image/svg+xml;utf8",
        svg |-> [ viewBox |-> <<offsetX, offsetY, width, height>>,
                  width |-> width,
                  height |-> height,
                  rect |-> [ width |-> width, height |-> height,
                             rx |-> CornerRadius, ry |-> CornerRadius,
                             fill |-> cfg.highlight.backgroundColor ] ] ]

\* buildUriForHighlight, reading this.config = cfg
buildUriForHighlight(cfg, characterCount) ==
  LET width == cfg.highlight.width * characterCount
      height == cfg.highlight.height
      offsetX == cfg.highlight.offsetX
      offsetY == cfg.highlight.offsetY
  IN  [ uri |-> "data:image/svg+xml;utf8",
        svg |-> [ viewBox |-> <<offsetX, offsetY, width, height>>,
                  width |-> width,
                  height |-> height,
                  rect |-> [ width |-> width, height |-> height,
                             rx |-> CornerRadius, ry |-> CornerRadius,
                             fill |-> cfg.highlight.backgroundColor ] ] ]

-----------------------------------------------------------------------------
(* Caches: JavaScript objects used as maps *)

\* {}
EmptyObject == [ k \in {} |-> Undefined ]

\* acc[key] = value
SetKey(acc, key, value) ==
  [ k \in (DOMAIN acc) \cup {key} |-> IF k = key THEN value ELSE acc[k] ]

\* obj[key]: undefined for a key the object does not hold
GetKey(obj, key) == IF key \in DOMAIN obj THEN obj[key] ELSE Undefined

\* reduce((acc, code) => { acc[code] = buildUriForPlaceholder(code); return acc }, acc)(list)
RECURSIVE reducePlaceholders(_, _, _)
reducePlaceholders(cfg, acc, list) ==
  IF list = <<>> THEN acc
  ELSE reducePlaceholders(cfg,
         SetKey(acc, Head(list), buildUriForPlaceholder(cfg, Head(list))),
         Tail(list))

\* reduce((acc, width) => { acc[width] = buildUriForHighlight(width); return acc }, acc)(list)
RECURSIVE reduceHighlights(_, _, _)
reduceHighlights(cfg, acc, list) ==
  IF list = <<>> THEN acc
  ELSE reduceHighlights(cfg,
         SetKey(acc, Head(list), buildUriForHighlight(cfg, Head(list))),
         Tail(list))

\* Faulty variant of highlightWidthKeys: the index is used as it is
highlightWidthKeysFromZero == [ i \in 1..HighlightWidths |-> i - 1 ]

\* [...Array(10)].map((_, i) => i + 1)
highlightWidthKeys == [ i \in 1..HighlightWidths |-> (i - 1) + 1 ]

\* Faulty variant of newPlaceholderCache: the cache is built once and kept
keptPlaceholderCache(cfg, old) ==
  IF old = Undefined
    THEN reducePlaceholders(cfg, EmptyObject, cfg.characters)
    ELSE old

\* Faulty variant of newPlaceholderCache: the entries are written into the
\* cache being replaced instead of into {}
mergedPlaceholderCache(cfg, old) == reducePlaceholders(cfg, old, cfg.characters)

\* the value updateCache assigns to this.placeholderCache, built from {} without
\* reading old, the value it replaces
newPlaceholderCache(cfg, old) == reducePlaceholders(cfg, EmptyObject, cfg.characters)

\* the value updateCache assigns to this.highlightCache, built from {} without
\* reading old, the value it replaces
newHighlightCache(cfg, old) == reduceHighlights(cfg, EmptyObject, highlightWidthKeys)

-----------------------------------------------------------------------------
(* The editor and the window factory *)

\* the decoration type with identity id
Handle(id) == [ id |-> id ]

\* window.createTextEditorDecorationType: a decoration type never seen before
NewHandle == Handle(Len(handles) + 1)

\* the editor's record of a decoration type just created
Created(kind) == [ kind |-> kind, binds |-> 0, clears |-> 0, disposes |-> 0 ]

\* editor.setDecorations(h, options) with the options of an apply call
Bind(hs, h, options) == [ hs EXCEPT ![h.id].binds = @ + 1 ]

\* editor.setDecorations(h, [])
Clear(hs, h) == [ hs EXCEPT ![h.id].clears = @ + 1 ]

\* h.dispose()
Dispose(hs, h) == [ hs EXCEPT ![h.id].disposes = @ + 1 ]

-----------------------------------------------------------------------------
(* What the apply calls hand to the editor *)

\* the options of createTextEditorDecorationType in addDecorations and addHighlights:
\* margin `0 0 0 ${1 * -width}px`, height `${height}px`, width `${1 * width}px`
decorationRenderOptions(cfg) ==
  LET width == cfg.placeholder.width
      height == cfg.placeholder.height
  IN  [ after |-> [ margin |-> <<0, 0, 0, 1 * (-width)>>,
                    height |-> height,
                    width |-> 1 * width ] ]

\* renderOptions of one DecorationOptions: the same icon for dark and light
iconRenderOptions(icon) ==
  [ dark |-> [ after |-> [ contentIconPath |-> icon ] ],
    light |-> [ after |-> [ contentIconPath |-> icon ] ] ]

\* Faulty variant of placeholderRange: the range ends one column further
placeholderRangeWide(placeholder) ==
  Range4(placeholder.line, placeholder.character + PlaceholderOffset,
         placeholder.line, placeholder.character + PlaceholderOffset + 1)

\* the range of a placeholder's decoration in addDecorations
placeholderRange(placeholder) ==
  Range4(placeholder.line, placeholder.character + PlaceholderOffset,
         placeholder.line, placeholder.character + PlaceholderOffset)

\* the range of a placeholder's decoration in addHighlights
highlightRange(placeholder) ==
  Range4(placeholder.line, placeholder.character + HighlightOffset,
         placeholder.line, placeholder.character + HighlightOffset)

\* Faulty variant of placeholderOptions: one code the cache does not hold
\* leaves every target of the batch without an icon
placeholderOptionsAllOrNone(cache, placeholders) ==
  LET complete == \A i \in 1..Len(placeholders) :
                    placeholders[i].placeholder \in DOMAIN cache
  IN  [ i \in 1..Len(placeholders) |->
          [ range |-> placeholderRange(placeholders[i]),
            renderOptions |->
              iconRenderOptions(IF complete
                                  THEN cache[placeholders[i].placeholder]
                                  ELSE Undefined) ] ]

\* map(placeholder => ({range, renderOptions}), placeholders) in addDecorations
placeholderOptions(cache, placeholders) ==
  [ i \in 1..Len(placeholders) |->
      [ range |-> placeholderRange(placeholders[i]),
        renderOptions |->
          iconRenderOptions(GetKey(cache, placeholders[i].placeholder)) ] ]

\* uniq(list): list without the repeats of an element already seen
RECURSIVE uniqFrom(_, _)
uniqFrom(list, seen) ==
  IF list = <<>> THEN <<>>
  ELSE IF Head(list) \in seen THEN uniqFrom(Tail(list), seen)
  ELSE <<Head(list)>> \o uniqFrom(Tail(list), seen \cup {Head(list)})

\* Faulty variant of highlightOptions: a placeholder given twice is bound once
highlightOptionsUnique(cache, placeholders, highlightCount) ==
  LET unique == uniqFrom(placeholders, {})
  IN  [ i \in 1..Len(unique) |->
          [ range |-> Range4(unique[i].line, unique[i].character + HighlightOffset,
                             unique[i].line, unique[i].character + HighlightOffset),
            renderOptions |-> iconRenderOptions(GetKey(cache, highlightCount)) ] ]

\* Faulty variant of highlightOptions: highlightCount is clamped to the
\* widths the cache holds
highlightOptionsClamped(cache, placeholders, highlightCount) ==
  LET clamped == IF highlightCount < 1 THEN 1
                 ELSE IF highlightCount > HighlightWidths THEN HighlightWidths
                 ELSE highlightCount
  IN  [ i \in 1..Len(placeholders) |->
          [ range |-> highlightRange(placeholders[i]),
            renderOptions |-> iconRenderOptions(GetKey(cache, clamped)) ] ]

\* map(placeholder => ({range, renderOptions}), placeholders) in addHighlights
highlightOptions(cache, placeholders, highlightCount) ==
  [ i \in 1..Len(placeholders) |->
      [ range |-> highlightRange(placeholders[i]),
        renderOptions |-> iconRenderOptions(GetKey(cache, highlightCount)) ] ]

\* Faulty variant of toAddRanges: the whole-document range is pushed whatever
\* ranges were given
toAddRangesAlwaysDefault(lineCount, ranges) ==
  (IF ranges # Undefined /\ Len(ranges.array) # 0 THEN ranges.array ELSE <<>>)
    \o << RangeOf(Position(0, 0), Position(lineCount, MAX_VALUE)) >>

\* toAddRanges of dimEditor: the ranges given, or one range over the whole document
toAddRanges(lineCount, ranges) ==
  IF ranges # Undefined /\ Len(ranges.array) # 0
    THEN ranges.array
    ELSE << RangeOf(Position(0, 0), Position(lineCount, MAX_VALUE)) >>

\* Faulty variant of forEachRemove: the first item of the list is skipped
RECURSIVE forEachRemoveRest(_, _)
forEachRemoveRest(hs, list) ==
  IF Len(list) <= 1 THEN hs
  ELSE forEachRemoveRest(Dispose(Clear(hs, list[Len(list)]), list[Len(list)]),
                         SubSeq(list, 1, Len(list) - 1))

\* forEach(item => { editor.setDecorations(item, []); item.dispose() }, list)
RECURSIVE forEachRemove(_, _)
forEachRemove(hs, list) ==
  IF list = <<>> THEN hs
  ELSE forEachRemove(Dispose(Clear(hs, Head(list)), Head(list)), Tail(list))

\* Faulty variant of undimHandles: the tracked dim is left as it is
undimHandlesNever(d, hs) == hs

\* the editor after undimEditor run with this.dim = d
undimHandles(d, hs) == IF d # Undefined THEN Dispose(Clear(hs, d), d) ELSE hs

-----------------------------------------------------------------------------
Init ==
  /\ config = Undefined
  /\ placeholderCache = Undefined
  /\ highlightCache = Undefined
  /\ dim = Undefined
  /\ decorations = <<>>
  /\ highlights = <<>>
  /\ handles = <<>>
  /\ pc = "idle"
  /\ lastCall = [ op |-> "constructor", threw |-> FALSE ]
  /\ completed = Undefined
  /\ previous = Undefined
  /\ adds = [ decorations |-> 0, highlights |-> 0 ]

\* Faulty variant of RefreshConfig: the list of placeholder handles is reset
RefreshConfigResets(c) ==
  /\ pc = "idle"
  /\ config' = c
  /\ pc' = "placeholderCache"
  /\ lastCall' = [ op |-> "refreshConfig", threw |-> FALSE, config |-> c ]
  /\ decorations' = <<>>
  /\ adds' = [ adds EXCEPT !.decorations = 0 ]
  /\ UNCHANGED <<placeholderCache, highlightCache, dim, highlights,
                 handles, completed, previous>>

\* refreshConfig, line 26: this.config = config
RefreshConfig(c) ==
  /\ pc = "idle"
  /\ config' = c
  /\ pc' = "placeholderCache"
  /\ lastCall' = [ op |-> "refreshConfig", threw |-> FALSE, config |-> c ]
  /\ UNCHANGED <<placeholderCache, highlightCache, dim, decorations, highlights,
                 handles, completed, previous, adds>>

\* updateCache, lines 168-174: this.placeholderCache = reduce(...)
UpdatePlaceholderCache ==
  /\ pc = "placeholderCache"
  /\ placeholderCache' = newPlaceholderCache(config, placeholderCache)
  /\ pc' = "highlightCache"
  /\ UNCHANGED <<config, highlightCache, dim, decorations, highlights,
                 handles, lastCall, completed, previous, adds>>

\* updateCache, lines 176-182: this.highlightCache = reduce(...); refreshConfig returns
UpdateHighlightCache ==
  /\ pc = "highlightCache"
  /\ highlightCache' = newHighlightCache(config, highlightCache)
  /\ pc' = "idle"
  /\ completed' = config
  /\ previous' = completed
  /\ UNCHANGED <<config, placeholderCache, dim, decorations, highlights,
                 handles, lastCall, adds>>

\* Faulty variant of RaiseTypeError: the call returns without doing anything
ReturnSilently(op) ==
  /\ lastCall' = [ op |-> op, threw |-> FALSE ]
  /\ UNCHANGED <<decorations, highlights, handles, adds>>

\* this.config.placeholder with this.config undefined: the first statement of
\* addDecorations and of addHighlights raises a TypeError and the call ends
RaiseTypeError(op) ==
  /\ lastCall' = [ op |-> op, threw |-> TRUE ]
  /\ UNCHANGED <<decorations, highlights, handles, adds>>

\* addDecorations
AddDecorations(placeholders) ==
  /\ pc = "idle"
  /\ IF config = Undefined
       THEN RaiseTypeError("addDecorations")
       ELSE /\ Len(handles) < MaxHandles
            /\ LET decorationType == NewHandle
                   options == placeholderOptions(placeholderCache, placeholders)
               IN  /\ decorations' = Append(decorations, decorationType)
                   /\ handles' = Bind(Append(handles, Created("placeholder")),
                                      decorationType, options)
                   /\ lastCall' = [ op |-> "addDecorations", threw |-> FALSE,
                                    placeholders |-> placeholders,
                                    handle |-> decorationType,
                                    created |-> decorationRenderOptions(config),
                                    options |-> options ]
            /\ adds' = [ adds EXCEPT !.decorations = @ + 1 ]
            /\ UNCHANGED highlights
  /\ UNCHANGED <<config, placeholderCache, highlightCache, dim,
                 pc, completed, previous>>

\* addHighlights
AddHighlights(placeholders, highlightCount) ==
  /\ pc = "idle"
  /\ IF config = Undefined
       THEN RaiseTypeError("addHighlights")
       ELSE /\ Len(handles) < MaxHandles
            /\ LET decorationType == NewHandle
                   options == highlightOptions(highlightCache, placeholders,
                                               highlightCount)
               IN  /\ highlights' = Append(highlights, decorationType)
                   /\ handles' = Bind(Append(handles, Created("highlight")),
                                      decorationType, options)
                   /\ lastCall' = [ op |-> "addHighlights", threw |-> FALSE,
                                    placeholders |-> placeholders,
                                    highlightCount |-> highlightCount,
                                    handle |-> decorationType,
                                    created |-> decorationRenderOptions(config),
                                    options |-> options ]
            /\ adds' = [ adds EXCEPT !.highlights = @ + 1 ]
            /\ UNCHANGED decorations
  /\ UNCHANGED <<config, placeholderCache, highlightCache, dim,
                 pc, completed, previous>>

\* dimEditor on an editor whose document has lineCount lines
DimEditor(lineCount, ranges) ==
  /\ pc = "idle"
  /\ Len(handles) < MaxHandles
  /\ LET undimmed == undimHandles(dim, handles)
         newDim == NewHandle
         options == toAddRanges(lineCount, ranges)
     IN  /\ dim' = newDim
         /\ handles' = Bind(Append(undimmed, Created("dim")), newDim, options)
         /\ lastCall' = [ op |-> "dimEditor", threw |-> FALSE,
                          ranges |-> ranges, lineCount |-> lineCount,
                          undimmed |-> dim, handle |-> newDim,
                          options |-> options ]
  /\ UNCHANGED <<config, placeholderCache, highlightCache, decorations,
                 highlights, pc, completed, previous, adds>>

\* Faulty variant of RemoveDecorations: the highlights are removed as well
RemoveDecorationsAndHighlights ==
  /\ pc = "idle"
  /\ handles' = forEachRemove(forEachRemove(handles, decorations), highlights)
  /\ decorations' = <<>>
  /\ highlights' = <<>>
  /\ adds' = [ decorations |-> 0, highlights |-> 0 ]
  /\ lastCall' = [ op |-> "removeDecorations", threw |-> FALSE,
                   removed |-> decorations ]
  /\ UNCHANGED <<config, placeholderCache, highlightCache, dim,
                 pc, completed, previous>>

\* Faulty variant of RemoveDecorations: the loop reads the first item before
\* it tests the length, and raises on an empty list
RemoveDecorationsDoWhile ==
  /\ pc = "idle"
  /\ handles' = forEachRemove(handles, decorations)
  /\ decorations' = <<>>
  /\ adds' = [ adds EXCEPT !.decorations = 0 ]
  /\ lastCall' = [ op |-> "removeDecorations", threw |-> decorations = <<>>,
                   removed |-> decorations ]
  /\ UNCHANGED <<config, placeholderCache, highlightCache, dim, highlights,
                 pc, completed, previous>>

\* removeDecorations
RemoveDecorations ==
  /\ pc = "idle"
  /\ handles' = forEachRemove(handles, decorations)
  /\ decorations' = <<>>
  /\ adds' = [ adds EXCEPT !.decorations = 0 ]
  /\ lastCall' = [ op |-> "removeDecorations", threw |-> FALSE,
                   removed |-> decorations ]
  /\ UNCHANGED <<config, placeholderCache, highlightCache, dim, highlights,
                 pc, completed, previous>>

\* Faulty variant of RemoveHighlights: this.highlights is not emptied
RemoveHighlightsKeepsList ==
  /\ pc = "idle"
  /\ handles' = forEachRemove(handles, highlights)
  /\ highlights' = highlights
  /\ adds' = [ adds EXCEPT !.highlights = 0 ]
  /\ lastCall' = [ op |-> "removeHighlights", threw |-> FALSE,
                   removed |-> highlights ]
  /\ UNCHANGED <<config, placeholderCache, highlightCache, dim, decorations,
                 pc, completed, previous>>

\* removeHighlights
RemoveHighlights ==
  /\ pc = "idle"
  /\ handles' = forEachRemove(handles, highlights)
  /\ highlights' = <<>>
  /\ adds' = [ adds EXCEPT !.highlights = 0 ]
  /\ lastCall' = [ op |-> "removeHighlights", threw |-> FALSE,
                   removed |-> highlights ]
  /\ UNCHANGED <<config, placeholderCache, highlightCache, dim, decorations,
                 pc, completed, previous>>

\* Faulty variant of UndimEditor: this.dim is not deleted
UndimEditorKeepsDim ==
  /\ pc = "idle"
  /\ handles' = undimHandles(dim, handles)
  /\ dim' = dim
  /\ lastCall' = [ op |-> "undimEditor", threw |-> FALSE, undimmed |-> dim,
                   again |-> lastCall.op = "undimEditor" ]
  /\ UNCHANGED <<config, placeholderCache, highlightCache, decorations,
                 highlights, pc, completed, previous, adds>>

\* undimEditor; again records that the call before it was undimEditor too
UndimEditor ==
  /\ pc = "idle"
  /\ handles' = undimHandles(dim, handles)
  /\ dim' = Undefined
  /\ lastCall' = [ op |-> "undimEditor", threw |-> FALSE, undimmed |-> dim,
                   again |-> lastCall.op = "undimEditor" ]
  /\ UNCHANGED <<config, placeholderCache, highlightCache, decorations,
                 highlights, pc, completed, previous, adds>>

Next ==
  \/ \E c \in Configs : RefreshConfig(c)
  \/ UpdatePlaceholderCache
  \/ UpdateHighlightCache
  \/ \E placeholders \in PlaceholderLists : AddDecorations(placeholders)
  \/ \E placeholders \in PlaceholderLists, highlightCount \in HighlightCounts :
       AddHighlights(placeholders, highlightCount)
  \/ \E lineCount \in LineCounts, ranges \in DimRangeArgs :
       DimEditor(lineCount, ranges)
  \/ RemoveDecorations
  \/ RemoveHighlights
  \/ UndimEditor

Spec == Init /\ [][Next]_vars
-----------------------------------------------------------------------------
(* Properties *)

\* the elements of an array
Elements(list) == { list[i] : i \in DOMAIN list }

\* the ids of the decoration types created so far, and those of one kind
HandleIds == DOMAIN handles
KindIds(kind) == { i \in HandleIds : handles[i].kind = kind }

\* the last public call returned normally from op
Returned(op) == lastCall.op = op /\ ~lastCall.threw /\ pc = "idle"

\* the icon a binding carries (the same under dark and light)
IconOf(option) == option.renderOptions.dark.after.contentIconPath

\* the icon config cfg defines for a placeholder code, and for a highlight count
PlaceholderIconUnder(cfg, code) ==
  IF code \in Elements(cfg.characters)
    THEN buildUriForPlaceholder(cfg, code)
    ELSE Undefined

HighlightIconUnder(cfg, highlightCount) ==
  IF highlightCount \in 1..HighlightWidths
    THEN buildUriForHighlight(cfg, highlightCount)
    ELSE Undefined

\* every item of list has been cleared once and disposed once
RemovedOnce(list) ==
  \A i \in DOMAIN list :
    handles[list[i].id].clears = 1 /\ handles[list[i].id].disposes = 1

\* C1: tracking invariant.  Each tracked list holds exactly as many distinct
\* handles as add calls of its category returned since the last remove call of
\* that category; right after a remove call the list is empty and every handle
\* it held has been cleared once and disposed once.
C1_Tracking ==
  /\ Len(decorations) = adds.decorations
  /\ Len(highlights) = adds.highlights
  /\ Cardinality(Elements(decorations)) = Len(decorations)
  /\ Cardinality(Elements(highlights)) = Len(highlights)
  /\ Elements(decorations) \cap Elements(highlights) = {}
  /\ Returned("removeDecorations") =>
       decorations = <<>> /\ RemovedOnce(lastCall.removed)
  /\ Returned("removeHighlights") =>
       highlights = <<>> /\ RemovedOnce(lastCall.removed)

\* C1 witness: removeDecorations has just emptied a list of two handles while
\* a highlight handle stays tracked
C1_Witness ==
  /\ Returned("removeDecorations")
  /\ Len(lastCall.removed) = 2
  /\ Len(highlights) = 1

\* C2: at most one dim handle is created and not disposed; a tracked dim is
\* that handle and is the dim created last; every other dim handle has been
\* cleared once and disposed once; dimEditor leaves its new handle tracked
\* and the one it replaced cleared and disposed.
C2_SingleDim ==
  LET live == { i \in KindIds("dim") : handles[i].disposes = 0 }
  IN  /\ Cardinality(live) <= 1
      /\ dim # Undefined =>
           /\ live = { dim.id }
           /\ \A i \in KindIds("dim") : i <= dim.id
      /\ \A i \in KindIds("dim") \ live :
           handles[i].clears = 1 /\ handles[i].disposes = 1
      /\ Returned("dimEditor") =>
           /\ dim = lastCall.handle
           /\ lastCall.undimmed # Undefined =>
                /\ lastCall.undimmed # dim
                /\ handles[lastCall.undimmed.id].clears = 1
                /\ handles[lastCall.undimmed.id].disposes = 1

\* C2 witness: dimEditor has just replaced a tracked dim handle
C2_Witness ==
  /\ Returned("dimEditor")
  /\ lastCall.undimmed # Undefined

\* C3: atomic rebuild.  An add call that returns sized its handle from the
\* config of the last refreshConfig that returned, and bound every target to
\* the icon that config defines for it (undefined where it defines none).
C3_AtomicRebuild ==
  /\ Returned("addDecorations") =>
       /\ completed # Undefined
       /\ lastCall.created = decorationRenderOptions(completed)
       /\ Len(lastCall.options) = Len(lastCall.placeholders)
       /\ \A i \in DOMAIN lastCall.options :
            lastCall.options[i].renderOptions =
              iconRenderOptions(PlaceholderIconUnder(completed,
                                  lastCall.placeholders[i].placeholder))
  /\ Returned("addHighlights") =>
       /\ completed # Undefined
       /\ lastCall.created = decorationRenderOptions(completed)
       /\ Len(lastCall.options) = Len(lastCall.placeholders)
       /\ \A i \in DOMAIN lastCall.options :
            lastCall.options[i].renderOptions =
              iconRenderOptions(HighlightIconUnder(completed,
                                  lastCall.highlightCount))

\* C3 witness: addDecorations after a refreshConfig that replaced another
\* config; one target resolved, another one, whose code only the replaced
\* config had, did not
C3_Witness ==
  /\ Returned("addDecorations")
  /\ previous # Undefined /\ previous # completed
  /\ \E i \in DOMAIN lastCall.options : IconOf(lastCall.options[i]) # Undefined
  /\ \E i \in DOMAIN lastCall.options :
       /\ IconOf(lastCall.options[i]) = Undefined
       /\ lastCall.placeholders[i].placeholder \in Elements(previous.characters)
\* a placeholder cache holding exactly what config cfg defines
PlaceholderCacheOf(cache, cfg) ==
  /\ DOMAIN cache = Elements(cfg.characters)
  /\ \A code \in DOMAIN cache : cache[code] = buildUriForPlaceholder(cfg, code)

\* a highlight cache holding exactly what config cfg defines
HighlightCacheOf(cache, cfg) ==
  /\ DOMAIN cache = 1..HighlightWidths
  /\ \A width \in DOMAIN cache : cache[width] = buildUriForHighlight(cfg, width)

\* C4: once a refreshConfig has returned, the active config and the two
\* caches belong to one and the same config in every state, the states
\* inside a later refreshConfig included: the three switch together.
C4_SwitchTogether ==
  completed # Undefined =>
    \E c \in Configs :
      /\ config = c
      /\ PlaceholderCacheOf(placeholderCache, c)
      /\ HighlightCacheOf(highlightCache, c)

\* C5: cache completeness.  When refreshConfig(config) has returned, the
\* placeholder cache holds a resource for every code of config.characters and
\* the highlight cache one for every width from 1 to 10.
C5_CacheComplete ==
  Returned("refreshConfig") =>
    /\ \A code \in Elements(lastCall.config.characters) :
         GetKey(placeholderCache, code) # Undefined
    /\ \A width \in 1..10 : GetKey(highlightCache, width) # Undefined

\* C5 witness: a refreshConfig that replaced another config has returned
C5_Witness ==
  /\ Returned("refreshConfig")
  /\ previous # Undefined /\ previous # lastCall.config
  /\ lastCall.config.characters # <<>>

\* C6: bounded highlight range.  addHighlights with highlightCount 0 or 11
\* binds every target of the batch to undefined; with a highlightCount from 1
\* to 10 it binds every target to one and the same resource, the one cached
\* for that count.
C6_HighlightRange ==
  Returned("addHighlights") =>
    /\ Len(lastCall.options) = Len(lastCall.placeholders)
    /\ lastCall.highlightCount \in {0, 11} =>
         \A i \in DOMAIN lastCall.options :
           lastCall.options[i].renderOptions = iconRenderOptions(Undefined)
    /\ lastCall.highlightCount \in 1..10 =>
         /\ highlightCache[lastCall.highlightCount] # Undefined
         /\ \A i \in DOMAIN lastCall.options :
              lastCall.options[i].renderOptions =
                iconRenderOptions(highlightCache[lastCall.highlightCount])

\* C6 witness: addHighlights with highlightCount 11 on two targets
C6_Witness ==
  /\ Returned("addHighlights")
  /\ lastCall.highlightCount = 11
  /\ Len(lastCall.options) = 2

\* C7: fail-soft cache miss.  addDecorations after a refreshConfig raises
\* nothing; a target whose code is not among the configured characters is
\* bound to undefined, every other target to its cached resource, and the
\* handle is created, applied once and tracked last.
C7_FailSoftMiss ==
  (lastCall.op = "addDecorations" /\ completed # Undefined) =>
    /\ ~lastCall.threw
    /\ Len(lastCall.options) = Len(lastCall.placeholders)
    /\ \A i \in DOMAIN lastCall.options :
         LET code == lastCall.placeholders[i].placeholder
         IN  IF code \in Elements(config.characters)
               THEN /\ IconOf(lastCall.options[i]) = placeholderCache[code]
                    /\ IconOf(lastCall.options[i]) # Undefined
               ELSE IconOf(lastCall.options[i]) = Undefined
    /\ lastCall.handle.id \in KindIds("placeholder")
    /\ handles[lastCall.handle.id].binds = 1
    /\ decorations # <<>>
    /\ decorations[Len(decorations)] = lastCall.handle

\* C7 witness: a batch of two targets, the first one a cache miss, the second
\* one resolved
C7_Witness ==
  /\ Returned("addDecorations")
  /\ Len(lastCall.options) = 2
  /\ lastCall.placeholders[1].placeholder \notin Elements(config.characters)
  /\ IconOf(lastCall.options[2]) # Undefined

\* no handle of the two list categories exists
NothingRendered ==
  /\ decorations = <<>>
  /\ highlights = <<>>
  /\ KindIds("placeholder") = {}
  /\ KindIds("highlight") = {}

\* C8 as stated: an add call made before the first refreshConfig returns
\* without an error, rendering nothing.
C8_PreRefreshSilent ==
  (lastCall.op \in {"addDecorations", "addHighlights"} /\ completed = Undefined) =>
    ~lastCall.threw /\ NothingRendered

\* C8 amended: an add call made before the first refreshConfig raises an
\* error before it creates anything: no handle of either list exists and
\* nothing is tracked.
C8_PreRefreshRaises ==
  (lastCall.op \in {"addDecorations", "addHighlights"} /\ completed = Undefined) =>
    lastCall.threw /\ NothingRendered

\* C8 witness: addHighlights has raised on a manager that refreshConfig was
\* never called on and that tracks a dim handle
C8_Witness ==
  /\ lastCall.op = "addHighlights"
  /\ lastCall.threw
  /\ config = Undefined
  /\ dim # Undefined

\* C9: positional offset.  addDecorations binds the target at (L, C) to the
\* empty range at (L, C + 1), addHighlights to the empty range at (L, C + 2).
C9_AnchorOffset ==
  /\ Returned("addDecorations") =>
       \A i \in DOMAIN lastCall.placeholders :
         LET L == lastCall.placeholders[i].line
             C == lastCall.placeholders[i].character
         IN  lastCall.options[i].range =
               [ start |-> [ line |-> L, character |-> C + 1 ],
                 end |-> [ line |-> L, character |-> C + 1 ] ]
  /\ Returned("addHighlights") =>
       \A i \in DOMAIN lastCall.placeholders :
         LET L == lastCall.placeholders[i].line
             C == lastCall.placeholders[i].character
         IN  lastCall.options[i].range =
               [ start |-> [ line |-> L, character |-> C + 2 ],
                 end |-> [ line |-> L, character |-> C + 2 ] ]

\* C9 witness: addDecorations has bound the target at (3, 5) to (3, 6)
C9_Witness ==
  /\ Returned("addDecorations")
  /\ \E i \in DOMAIN lastCall.placeholders :
       /\ lastCall.placeholders[i].line = 3
       /\ lastCall.placeholders[i].character = 5
       /\ lastCall.options[i].range.start = [ line |-> 3, character |-> 6 ]

\* C10: dim default range.  dimEditor with undefined or empty ranges applies
\* the dim handle over the one range from (0, 0) to (lineCount, MAX_VALUE);
\* with a non-empty array it applies it over exactly that array.
C10_DimRanges ==
  Returned("dimEditor") =>
    /\ handles[lastCall.handle.id].binds = 1
    /\ IF lastCall.ranges = Undefined \/ lastCall.ranges.array = <<>>
         THEN lastCall.options =
                << [ start |-> [ line |-> 0, character |-> 0 ],
                     end |-> [ line |-> lastCall.lineCount,
                               character |-> MAX_VALUE ] ] >>
         ELSE lastCall.options = lastCall.ranges.array

\* C10 witness: dimEditor with undefined ranges on a document of 40 lines
C10_Witness ==
  /\ Returned("dimEditor")
  /\ lastCall.ranges = Undefined
  /\ lastCall.lineCount = 40
-----------------------------------------------------------------------------
(* Steps of the public calls *)

\* the step is made by the public call op (refreshConfig: by its first statement)
StepOf(op) == pc = "idle" /\ lastCall'.op = op

\* the manager's fields other than the config and the caches, and the editor
Trackers == <<dim, decorations, highlights, handles>>

\* C11: idempotence of undimEditor.  An undimEditor call that follows an
\* undimEditor call finds no dim tracked, clears and disposes nothing, and
\* leaves every field of the manager and the editor as the first call left
\* them: no dim tracked, every dim handle cleared and disposed.
C11_UndimIdempotent ==
  [][ (StepOf("undimEditor") /\ lastCall.op = "undimEditor") =>
        /\ dim = Undefined
        /\ \A i \in KindIds("dim") :
             handles[i].clears = 1 /\ handles[i].disposes = 1
        /\ ~lastCall'.threw
        /\ UNCHANGED <<Trackers, config, placeholderCache, highlightCache>> ]_vars

\* C11 witness: undimEditor has returned right after the undimEditor call
\* that removed a dim handle
C11_Witness ==
  /\ Returned("undimEditor")
  /\ lastCall.again
  /\ KindIds("dim") # {}

\* C12: double clear.  removeDecorations (removeHighlights) called while its
\* list is empty raises nothing, clears and disposes nothing, and leaves every
\* field of the manager and the editor unchanged.
C12_RemoveOnEmpty ==
  [][ /\ (StepOf("removeDecorations") /\ decorations = <<>>) =>
           /\ ~lastCall'.threw
           /\ UNCHANGED <<Trackers, config, placeholderCache, highlightCache>>
      /\ (StepOf("removeHighlights") /\ highlights = <<>>) =>
           /\ ~lastCall'.threw
           /\ UNCHANGED <<Trackers, config, placeholderCache, highlightCache>>
    ]_vars

\* C12 witness: removeDecorations has returned from a call made on an empty
\* list, after an earlier remove disposed a placeholder handle, while a
\* highlight handle is tracked
C12_Witness ==
  /\ Returned("removeDecorations")
  /\ lastCall.removed = <<>>
  /\ KindIds("placeholder") # {}
  /\ highlights # <<>>

\* C13: full rebuild.  When refreshConfig(c2) has returned, the keys of the
\* placeholder cache are exactly the codes of c2.characters, every entry is
\* the one c2 defines, and a code that only the config replaced had is a miss.
C13_FullRebuild ==
  Returned("refreshConfig") =>
    /\ DOMAIN placeholderCache = Elements(lastCall.config.characters)
    /\ \A code \in DOMAIN placeholderCache :
         placeholderCache[code] = buildUriForPlaceholder(lastCall.config, code)
    /\ previous # Undefined =>
         \A code \in Elements(previous.characters) :
           code \notin Elements(lastCall.config.characters) =>
             GetKey(placeholderCache, code) = Undefined

\* C13 witness: refreshConfig has replaced a config that had a code the new
\* config does not have
C13_Witness ==
  /\ Returned("refreshConfig")
  /\ previous # Undefined
  /\ Elements(previous.characters) \ Elements(lastCall.config.characters) # {}
\* the upper-case and the lower-case form of the codes of the configs
UpperCaseOf ==
  ("a" :> "A") @@ ("A" :> "A") @@ ("s" :> "S") @@ ("S" :> "S") @@
  ("d" :> "D") @@ ("D" :> "D")

LowerCaseOf ==
  ("a" :> "a") @@ ("A" :> "a") @@ ("s" :> "s") @@ ("S" :> "s") @@
  ("d" :> "d") @@ ("D" :> "d")

\* C14: between calls, once refreshConfig has returned, the placeholder cache
\* is keyed by the codes of config.characters as they are written, and the
\* resource under code c has as text c in upper case when
\* config.placeholder.upperCase is set and c in lower case otherwise, on a
\* canvas of config.placeholder.width by config.placeholder.height; a code
\* that differs from the configured ones in case alone is a miss.
C14_PlaceholderGlyph ==
  (pc = "idle" /\ completed # Undefined) =>
    /\ DOMAIN placeholderCache = Elements(config.characters)
    /\ \A code \in Elements(config.characters) :
         /\ placeholderCache[code].svg.text.content =
              IF config.placeholder.upperCase
                THEN UpperCaseOf[code]
                ELSE LowerCaseOf[code]
         /\ placeholderCache[code].svg.width = config.placeholder.width
         /\ placeholderCache[code].svg.height = config.placeholder.height
         /\ placeholderCache[code].svg.viewBox =
              <<0, 0, config.placeholder.width, config.placeholder.height>>
    /\ \A code \in DOMAIN UpperCaseOf :
         code \notin Elements(config.characters) =>
           GetKey(placeholderCache, code) = Undefined

\* C14 witness: under an upper-case config the resource under "d" reads "D",
\* and "D" is no key of the cache
C14_Witness ==
  /\ pc = "idle"
  /\ completed # Undefined
  /\ config.placeholder.upperCase
  /\ "d" \in DOMAIN placeholderCache
  /\ placeholderCache["d"].svg.text.content = "D"
  /\ GetKey(placeholderCache, "D") = Undefined

\* C15: between calls, once refreshConfig(config) has returned, the highlight
\* resource under every width w from 1 to 10 is config.highlight.width * w
\* wide and config.highlight.height high, and its viewBox starts at
\* (config.highlight.offsetX, config.highlight.offsetY).
C15_HighlightBar ==
  (pc = "idle" /\ completed # Undefined) =>
    \A w \in 1..10 :
      /\ w \in DOMAIN highlightCache
      /\ highlightCache[w].svg.width = config.highlight.width * w
      /\ highlightCache[w].svg.height = config.highlight.height
      /\ highlightCache[w].svg.viewBox =
           << config.highlight.offsetX, config.highlight.offsetY,
              config.highlight.width * w, config.highlight.height >>

\* C15 witness: a config with highlight width 5 and offset (1, 3): the
\* resource under 10 is 50 wide and starts at (1, 3)
C15_Witness ==
  /\ pc = "idle"
  /\ completed # Undefined
  /\ config.highlight.width = 5
  /\ highlightCache[10].svg.width = 50
  /\ highlightCache[10].svg.viewBox[1] = 1
  /\ highlightCache[10].svg.viewBox[2] = 3

\* the ids of the handles the manager tracks
TrackedIds ==
  { decorations[i].id : i \in DOMAIN decorations }
    \cup { highlights[i].id : i \in DOMAIN highlights }
    \cup (IF dim # Undefined THEN { dim.id } ELSE {})

\* C16: no leak, no double release.  The handles created and not disposed
\* are exactly the tracked ones (the two lists and dim), each tracked once;
\* no handle is disposed twice; so with both lists empty and no dim tracked
\* every handle ever created has been disposed.
C16_NoLeak ==
  /\ { i \in HandleIds : handles[i].disposes = 0 } = TrackedIds
  /\ Cardinality(TrackedIds) =
       Len(decorations) + Len(highlights) + (IF dim # Undefined THEN 1 ELSE 0)
  /\ \A i \in HandleIds : handles[i].disposes <= 1
  /\ (decorations = <<>> /\ highlights = <<>> /\ dim = Undefined) =>
       \A i \in HandleIds : handles[i].disposes = 1

\* C16 witness: a handle of each category was created, and
\* removeDecorations, removeHighlights and undimEditor have disposed all three
C16_Witness ==
  /\ KindIds("placeholder") # {}
  /\ KindIds("highlight") # {}
  /\ KindIds("dim") # {}
  /\ decorations = <<>> /\ highlights = <<>> /\ dim = Undefined
  /\ \A i \in HandleIds : handles[i].disposes = 1
\* the editor's records of the handles of one kind
KindRecords(kind) == [ i \in KindIds(kind) |-> handles[i] ]

\* C17: the three categories are independent.  addDecorations and
\* removeDecorations leave the highlights list, dim and the editor's records
\* of the highlight and dim handles unchanged; addHighlights and
\* removeHighlights leave the decorations list, dim and the records of the
\* placeholder and dim handles unchanged; dimEditor and undimEditor leave
\* both lists and the records of the placeholder and highlight handles
\* unchanged.
C17_Independent ==
  [][ /\ (StepOf("addDecorations") \/ StepOf("removeDecorations")) =>
           /\ UNCHANGED <<highlights, dim>>
           /\ KindRecords("highlight")' = KindRecords("highlight")
           /\ KindRecords("dim")' = KindRecords("dim")
      /\ (StepOf("addHighlights") \/ StepOf("removeHighlights")) =>
           /\ UNCHANGED <<decorations, dim>>
           /\ KindRecords("placeholder")' = KindRecords("placeholder")
           /\ KindRecords("dim")' = KindRecords("dim")
      /\ (StepOf("dimEditor") \/ StepOf("undimEditor")) =>
           /\ UNCHANGED <<decorations, highlights>>
           /\ KindRecords("placeholder")' = KindRecords("placeholder")
           /\ KindRecords("highlight")' = KindRecords("highlight")
    ]_vars

\* C17 witness: removeDecorations has removed a handle while a highlight
\* handle and a dim handle stay tracked, neither cleared nor disposed
C17_Witness ==
  /\ Returned("removeDecorations")
  /\ lastCall.removed # <<>>
  /\ highlights # <<>>
  /\ dim # Undefined
  /\ handles[highlights[1].id].clears = 0
  /\ handles[dim.id].disposes = 0

\* C18: only refreshConfig changes the config and the caches, and it changes
\* nothing else: every other call leaves config and both caches unchanged;
\* every step of refreshConfig leaves the lists, dim and the editor's records
\* unchanged; and a remove call clears once and disposes once every handle of
\* its list, whichever config it was applied under.
C18_RefreshFrame ==
  [][ /\ (pc = "idle" /\ lastCall'.op # "refreshConfig") =>
           UNCHANGED <<config, placeholderCache, highlightCache>>
      /\ (pc # "idle" \/ lastCall'.op = "refreshConfig") =>
           UNCHANGED Trackers
      /\ StepOf("removeDecorations") =>
           \A i \in DOMAIN decorations :
             /\ handles'[decorations[i].id].clears = 1
             /\ handles'[decorations[i].id].disposes = 1
      /\ StepOf("removeHighlights") =>
           \A i \in DOMAIN highlights :
             /\ handles'[highlights[i].id].clears = 1
             /\ handles'[highlights[i].id].disposes = 1
    ]_vars

\* C18 witness: refreshConfig has replaced the config under which a handle
\* that is still tracked, not cleared and not disposed, was applied
C18_Witness ==
  /\ Returned("refreshConfig")
  /\ previous # Undefined /\ previous # completed
  /\ decorations # <<>>
  /\ handles[decorations[1].id].binds = 1
  /\ handles[decorations[1].id].clears = 0
  /\ handles[decorations[1].id].disposes = 0

\* C19: an add call made after a refreshConfig creates exactly one handle,
\* leaves the older ones as they are, pushes the new one on its list, and
\* applies it once with one binding per placeholder given, in the order given
\* (repeats and the empty list included): binding i is for placeholder i.
C19_OneHandlePerAdd ==
  [][ /\ (StepOf("addDecorations") /\ config # Undefined) =>
           /\ ~lastCall'.threw
           /\ Len(handles') = Len(handles) + 1
           /\ \A i \in HandleIds : handles'[i] = handles[i]
           /\ lastCall'.handle = Handle(Len(handles'))
           /\ handles'[Len(handles')] =
                [ kind |-> "placeholder", binds |-> 1, clears |-> 0, disposes |-> 0 ]
           /\ decorations' = Append(decorations, lastCall'.handle)
           /\ Len(lastCall'.options) = Len(lastCall'.placeholders)
           /\ \A i \in DOMAIN lastCall'.placeholders :
                /\ lastCall'.options[i].range.start.line =
                     lastCall'.placeholders[i].line
                /\ lastCall'.options[i].range.start.character =
                     lastCall'.placeholders[i].character + 1
                /\ IconOf(lastCall'.options[i]) =
                     GetKey(placeholderCache, lastCall'.placeholders[i].placeholder)
      /\ (StepOf("addHighlights") /\ config # Undefined) =>
           /\ ~lastCall'.threw
           /\ Len(handles') = Len(handles) + 1
           /\ \A i \in HandleIds : handles'[i] = handles[i]
           /\ lastCall'.handle = Handle(Len(handles'))
           /\ handles'[Len(handles')] =
                [ kind |-> "highlight", binds |-> 1, clears |-> 0, disposes |-> 0 ]
           /\ highlights' = Append(highlights, lastCall'.handle)
           /\ Len(lastCall'.options) = Len(lastCall'.placeholders)
           /\ \A i \in DOMAIN lastCall'.placeholders :
                /\ lastCall'.options[i].range.start.line =
                     lastCall'.placeholders[i].line
                /\ lastCall'.options[i].range.start.character =
                     lastCall'.placeholders[i].character + 2
    ]_vars

\* C19 witness: addHighlights with an empty list of placeholders has created
\* a handle, applied it with no binding and pushed it on the list
C19_Witness ==
  /\ Returned("addHighlights")
  /\ lastCall.placeholders = <<>>
  /\ lastCall.options = <<>>
  /\ highlights # <<>>
  /\ highlights[Len(highlights)] = lastCall.handle
  /\ handles[lastCall.handle.id].binds = 1
====
